---- MODULE Spec2Model ----
(***************************************************************************)
(* Model of the report pipeline of streamlit_app.py: query_report_data     *)
(* (planner, batch loop, merge, classification, column assembly) and the   *)
(* executor adapter invoke_lambda_function_url.                            *)
(*                                                                         *)
(* Conventions.                                                            *)
(*  - A vessel name is a natural number (the code only compares names).    *)
(*  - A numeric metric value is an integer number of thousandths, so 15    *)
(*    is Milli(15) and 25.001 is Milli(25) + 1.                            *)
(*  - A date is a record [y, m, d]; strftime('%b %y') is the pair          *)
(*    (month, year modulo 100) held in a column label.                     *)
(*  - A column label is a record [kind, mon, yy, sfx]; sfx is the list of  *)
(*    suffixes pandas.merge appended to it.                                *)
(*  - A cell is a record [t, n, s, l]: t = "num" (n), "str" (s), "na"      *)
(*    (NaN / pd.NA / None), "list" (a Python list of comment fragments l)  *)
(*    or "joined" (the space-joined string of the fragments l).            *)
(*  - A DataFrame is [cols, rows]: the column labels in order and the rows *)
(*    in order, each row a sequence of cells aligned with cols.            *)
(***************************************************************************)
EXTENDS Integers, Sequences, FiniteSets, TLC

VARIABLES
    pc,                      \* position inside query_report_data
    vessel_names,            \* argument: the requested vessels, in order
    num_months,              \* argument: N
    today,                   \* datetime.now()
    hull_dates_info,         \* planner output, hull descriptors
    me_dates_info,           \* planner output, ME descriptors
    all_hull_data_by_month,  \* accumulators keyed by power_loss_col_name
    all_me_data_by_month,    \* accumulators keyed by ME col_name
    all_fuel_saving_data,    \* accumulator
    all_cii_data,            \* accumulator
    total_batches,
    i,                       \* loop variable of the batch loop (0-based offset)
    batch_vessels,           \* slice of the current batch
    batch_queries,           \* the queries of the current batch
    q,                       \* index of the next query of the batch (1-based)
    batches,                 \* history: the slices processed so far
    progress,                \* history: values given to progress_bar.progress
    calls,                   \* history: executor invocations
    retrieved,               \* TRUE once some call returned a parsed body
    df_final,                \* the frame being assembled / returned
    session_state,           \* st.session_state
    ui                       \* widget states and what the page last did

vars == <<session_state, ui, pc, vessel_names, num_months, today, hull_dates_info, me_dates_info,
          all_hull_data_by_month, all_me_data_by_month, all_fuel_saving_data,
          all_cii_data, total_batches, i, batch_vessels, batch_queries, q,
          batches, progress, calls, retrieved, df_final>>

----------------------------------------------------------------------------
(* Bounds of the model and constants of the program *)

\* largest requested vessel list of the batching specification
MaxVessels == 23
\* at most this many executor calls of one run return a non-empty result
MaxData == 2
\* batch_size = 10
BatchSize == 10

Milli(x) == x * 1000

Range(s) == {s[k] : k \in DOMAIN s}

RECURSIVE Concat(_)
Concat(ss) == IF ss = <<>> THEN <<>> ELSE Head(ss) \o Concat(Tail(ss))

----------------------------------------------------------------------------
(* datetime arithmetic *)

IsLeap(y) == (y % 4 = 0 /\ y % 100 # 0) \/ y % 400 = 0

DaysInMonth(y, m) ==
    IF m = 2 THEN (IF IsLeap(y) THEN 29 ELSE 28)
    ELSE IF m \in {4, 6, 9, 11} THEN 30 ELSE 31

\* date - timedelta(days=n)
RECURSIVE MinusDays(_, _)
MinusDays(dt, n) ==
    IF n < dt.d THEN [dt EXCEPT !.d = dt.d - n]
    ELSE LET py == IF dt.m = 1 THEN dt.y - 1 ELSE dt.y
             pm == IF dt.m = 1 THEN 12 ELSE dt.m - 1
         IN MinusDays([y |-> py, m |-> pm, d |-> DaysInMonth(py, pm)], n - dt.d)

\* date.replace(day=1)
ReplaceDay1(dt) == [dt EXCEPT !.d = 1]

----------------------------------------------------------------------------
(* column labels and cells *)

Col(kind, mon, yy) == [kind |-> kind, mon |-> mon, yy |-> yy, sfx |-> <<>>]
FixedCol(kind) == Col(kind, 0, 0)

VesselNameCol == FixedCol("Vessel Name")
RawVesselNameCol == FixedCol("vessel_name")
SNoCol == FixedCol("S. No.")
FuelCol == FixedCol("Potential Fuel Saving (MT/Day)")
CiiCol == FixedCol("YTD CII")
CommentsCol == FixedCol("Comments")
TempCommentsCol == FixedCol("temp_comments_list")
\* the column pandas names 0 when the data is a flat list of scalars
ZeroCol == FixedCol("0")

Num(v) == [t |-> "num", n |-> v, s |-> "", l |-> <<>>]
Str(x) == [t |-> "str", n |-> 0, s |-> x, l |-> <<>>]
NA == [t |-> "na", n |-> 0, s |-> "", l |-> <<>>]
ListCell(fr) == [t |-> "list", n |-> 0, s |-> "", l |-> fr]

\* pd.isna / pd.notna
IsNA(c) == c.t = "na"

EmptyFrame == [cols |-> <<>>, rows |-> <<>>]
\* DataFrame.empty: some axis has length 0
FrameEmpty(df) == df.cols = <<>> \/ df.rows = <<>>

HasCol(df, c) == \E j \in DOMAIN df.cols : df.cols[j] = c
ColIndex(cols, c) == CHOOSE j \in DOMAIN cols :
                        cols[j] = c /\ \A k \in DOMAIN cols : cols[k] = c => j <= k
Cell(df, r, c) == df.rows[r][ColIndex(df.cols, c)]

----------------------------------------------------------------------------
(* Planner: lines 119-147 *)

first_day_current_month(t) == ReplaceDay1(t)

\* i is the 0-based loop index of `for i in range(num_months)`
target_month_end(t, k) ==
    LET approx == MinusDays(MinusDays(first_day_current_month(t), 1), 30 * k)
    IN MinusDays(ReplaceDay1(approx), 1)

HullInfo(t, k) ==
    LET e == target_month_end(t, k) IN
    [date_str |-> e,
     col_name |-> Col("Hull Condition", e.m, e.y % 100),
     power_loss_col_name |-> Col("Hull Roughness Power Loss %", e.m, e.y % 100),
     interval_str |-> k + 1]

MeInfo(t, k) ==
    LET e == target_month_end(t, k) IN
    [col_name |-> Col("ME Efficiency", e.m, e.y % 100),
     interval_start_str |-> k + 1,
     interval_end_str |-> k]

PlanHull(t, n) == [k \in 1..n |-> HullInfo(t, k - 1)]
PlanMe(t, n) == [k \in 1..n |-> MeInfo(t, k - 1)]

----------------------------------------------------------------------------
(* Executor adapter: invoke_lambda_function_url, lines 46-84 *)

\* Parsed JSON values.  A list holds row items; iterating a dict yields its
\* keys, which is what list.extend receives for an object body.
Row(name, val) == [shape |-> "dict", has_name |-> TRUE, name |-> name,
                   has_val |-> TRUE, val |-> val, key |-> ""]
RowNoVal(name) == [shape |-> "dict", has_name |-> TRUE, name |-> name,
                   has_val |-> FALSE, val |-> NA, key |-> ""]
RowNoName(val) == [shape |-> "dict", has_name |-> FALSE, name |-> 0,
                   has_val |-> TRUE, val |-> val, key |-> ""]
KeyItem(k) == [shape |-> "str", has_name |-> FALSE, name |-> 0,
               has_val |-> FALSE, val |-> NA, key |-> k]

\* statusCode and body are the fields of an envelope object (0 and empty for
\* every other value).
None == [kind |-> "none", items |-> <<>>, statusCode |-> 0, body |-> <<>>]
JsonList(items) == [kind |-> "list", items |-> items, statusCode |-> 0, body |-> <<>>]
\* an object: iterating it yields its keys
JsonDict(keys) == [kind |-> "dict", items |-> [k \in DOMAIN keys |-> KeyItem(keys[k])],
                   statusCode |-> 0, body |-> <<>>]
\* a non-zero JSON number
JsonNumber == [kind |-> "number", items |-> <<>>, statusCode |-> 0, body |-> <<>>]

\* the object {"statusCode": status, "body": rows}
Envelope(status, rows) ==
    [JsonDict(<<"statusCode", "body">>) EXCEPT !.statusCode = status, !.body = rows]

\* Python truthiness of a result: `if result:`
Truthy(result) == result.kind = "number" \/ result.items # <<>>

Transports == {"ok", "http_non_200", "connection_error", "timeout", "unparsable_body"}

\* What the adapter returns for a transport outcome and the body the service sent.
invoke_lambda_function_url(transport, body) ==
    IF transport = "http_non_200" THEN None          \* line 62-64
    ELSE IF transport = "ok" THEN body               \* line 66-68
    ELSE None                                        \* the except clauses, 70-84

----------------------------------------------------------------------------
(* The values the service may send, per kind of query *)

\* hull: Good, Poor; ME: anomalous, Good; fuel: above the cap, inside; CII
ValueCells(kind) ==
    CASE kind = "hull" -> {Num(Milli(12)), Num(Milli(30))}
      [] kind = "me" -> {Num(Milli(150)), Num(Milli(170))}
      [] kind = "fuel" -> {Num(7200), Num(3200)}
      [] kind = "cii" -> {Str("A"), Str("a"), Str("F")}

TypicalCell(kind) ==
    CASE kind = "hull" -> Num(Milli(12))
      [] kind = "me" -> Num(Milli(150))
      [] kind = "fuel" -> Num(3200)
      [] kind = "cii" -> Str("A")

\* Bodies for a query about the vessels bv: rows concern the first vessel of the
\* batch, so that the other vessels of the batch are absent from the rows.
Bodies(kind, bv) ==
    LET v == bv[1] IN
      {JsonList(<<>>), JsonNumber}
      \cup {Envelope(200, <<Row(v, TypicalCell(kind))>>), Envelope(500, <<>>)}
      \cup {JsonList(<<Row(v, c)>>) : c \in ValueCells(kind) \cup {NA}}
      \cup {JsonList(<<Row(v, TypicalCell(kind)), Row(v, TypicalCell(kind))>>)}
      \cup {JsonList(<<RowNoVal(v)>>)}
      \cup {JsonList(<<RowNoName(TypicalCell(kind))>>)}

----------------------------------------------------------------------------
(* pandas: DataFrame construction, column updates and merge *)

RawValueCol(kind) ==
    CASE kind = "hull" -> FixedCol("hull_rough_power_loss_pct_ed")
      [] kind = "me" -> FixedCol("avg_me_sfoc")
      [] kind = "fuel" -> FixedCol("hull_rough_excess_consumption_mt_ed")
      [] kind = "cii" -> FixedCol("cii_rating")

\* pd.DataFrame(items) for a non-empty list.  A list whose first element is a
\* dict is read as records (columns = the keys met, a key a record lacks gives
\* NaN) and raises when a later element is not a dict; a list whose first
\* element is a scalar becomes the single column 0.
PdDataFrame(items, valcol) ==
    IF items[1].shape = "dict"
    THEN IF \E r \in DOMAIN items : items[r].shape # "dict"
         THEN [ok |-> FALSE, df |-> EmptyFrame]
         ELSE LET hn == \E r \in DOMAIN items : items[r].has_name
                  hv == \E r \in DOMAIN items : items[r].has_val
              IN [ok |-> TRUE,
                  df |-> [cols |-> (IF hn THEN <<RawVesselNameCol>> ELSE <<>>)
                                   \o (IF hv THEN <<valcol>> ELSE <<>>),
                          rows |-> [r \in DOMAIN items |->
                                      (IF hn THEN <<IF items[r].has_name
                                                    THEN Num(items[r].name) ELSE NA>>
                                             ELSE <<>>)
                                      \o (IF hv THEN <<IF items[r].has_val
                                                       THEN items[r].val ELSE NA>>
                                                ELSE <<>>)]]]
    ELSE [ok |-> TRUE,
          df |-> [cols |-> <<ZeroCol>>,
                  rows |-> [r \in DOMAIN items |-> <<Str(items[r].key)>>]]]

\* df.rename(columns={from: to})
RenameCol(df, from, to) ==
    [df EXCEPT !.cols = [j \in DOMAIN df.cols |-> IF df.cols[j] = from THEN to ELSE df.cols[j]]]

\* df[c] = f(row): replaces the column when it exists, appends it otherwise
SetCol(df, c, f(_)) ==
    IF HasCol(df, c)
    THEN [df EXCEPT !.rows = [r \in DOMAIN df.rows |->
                                [df.rows[r] EXCEPT ![ColIndex(df.cols, c)] = f(df.rows[r])]]]
    ELSE [cols |-> Append(df.cols, c),
          rows |-> [r \in DOMAIN df.rows |-> Append(df.rows[r], f(df.rows[r]))]]

\* df.drop(columns=[c])
RECURSIVE Without(_, _)
Without(s, j) == IF s = <<>> THEN <<>>
                 ELSE IF j = 1 THEN Tail(s) ELSE <<Head(s)>> \o Without(Tail(s), j - 1)

DropCol(df, c) ==
    LET j == ColIndex(df.cols, c) IN
    [cols |-> Without(df.cols, j), rows |-> [r \in DOMAIN df.rows |-> Without(df.rows[r], j)]]

Sfx(c, s) == [c EXCEPT !.sfx = Append(@, s)]

\* pd.merge(left, right, on='Vessel Name', how='left'): raises KeyError when
\* right has no 'Vessel Name'; keeps every left row, once per matching right row
\* (once with NaN when none matches); equally named non-key columns get _x / _y.
RECURSIVE MergeRows(_, _, _, _, _)
MergeRows(lrows, rrows, lk, rk, rnon) ==
    IF lrows = <<>> THEN <<>>
    ELSE LET lr == Head(lrows)
             matches == SelectSeq(rrows, LAMBDA rr : rr[rk] = lr[lk])
             out == IF matches = <<>>
                    THEN << lr \o [j \in DOMAIN rnon |-> NA] >>
                    ELSE [m \in DOMAIN matches |->
                             lr \o [j \in DOMAIN rnon |-> matches[m][rnon[j]]]]
         IN out \o MergeRows(Tail(lrows), rrows, lk, rk, rnon)

RECURSIVE IndicesNot(_, _, _)
IndicesNot(cols, c, j) ==
    IF j > Len(cols) THEN <<>>
    ELSE (IF cols[j] = c THEN <<>> ELSE <<j>>) \o IndicesNot(cols, c, j + 1)

PdMerge(left, right) ==
    IF ~HasCol(right, VesselNameCol)
    THEN [ok |-> FALSE, df |-> left]
    ELSE LET lk == ColIndex(left.cols, VesselNameCol)
             rk == ColIndex(right.cols, VesselNameCol)
             rnon == IndicesNot(right.cols, VesselNameCol, 1)
             overlap == (Range(left.cols) \cap Range(right.cols)) \ {VesselNameCol}
             lcols == [j \in DOMAIN left.cols |->
                         IF left.cols[j] \in overlap THEN Sfx(left.cols[j], "_x")
                         ELSE left.cols[j]]
             rcols == [j \in DOMAIN rnon |->
                         IF right.cols[rnon[j]] \in overlap THEN Sfx(right.cols[rnon[j]], "_y")
                         ELSE right.cols[rnon[j]]]
         IN [ok |-> TRUE,
             df |-> [cols |-> lcols \o rcols,
                     rows |-> MergeRows(left.rows, right.rows, lk, rk, rnon)]]

----------------------------------------------------------------------------
(* Merge: lines 228-299 *)

\* the cap of line 272 returning the limit 5.0 in place of 4.9
cap_fuel_limit(x) ==
    IF ~IsNA(x) /\ x.n > Milli(5) THEN Num(5000)
    ELSE IF ~IsNA(x) /\ x.n < 0 THEN Num(0)
    ELSE x

\* the lambda of line 272
cap_fuel(x) ==
    IF ~IsNA(x) /\ x.n > Milli(5) THEN Num(4900)
    ELSE IF ~IsNA(x) /\ x.n < 0 THEN Num(0)
    ELSE x

\* Series.round(2) on thousandths (ties to the even hundredth)
Round2(x) ==
    IF IsNA(x) THEN x
    ELSE LET h == x.n \div 10
             r == x.n % 10
         IN Num(IF r < 5 THEN h * 10
                ELSE IF r > 5 THEN (h + 1) * 10
                ELSE IF h % 2 = 0 THEN h * 10 ELSE (h + 1) * 10)

\* the block giving up (empty frame) when no record carries the value key
ProcessDataRequiresValue(items, kind, outcol) ==
    IF items = <<>> THEN EmptyFrame
    ELSE LET c == PdDataFrame(items, RawValueCol(kind)) IN
         IF ~c.ok \/ ~HasCol(c.df, RawValueCol(kind)) THEN EmptyFrame
         ELSE LET renamed == RenameCol(c.df, RawValueCol(kind), outcol)
                  d1 == IF kind = "fuel"
                        THEN SetCol(renamed, outcol,
                                    LAMBDA row : Round2(cap_fuel(row[ColIndex(renamed.cols, outcol)])))
                        ELSE renamed
              IN RenameCol(d1, RawVesselNameCol, VesselNameCol)

\* One `df_x = pd.DataFrame(); if data: try: ... except: df_x = pd.DataFrame()`
\* block (232-243, 249-260, 265-279, 281-292): the frame to merge, or the empty
\* frame when there is no data or the construction raised.
ProcessData(items, kind, outcol) ==
    IF items = <<>> THEN EmptyFrame
    ELSE LET c == PdDataFrame(items, RawValueCol(kind)) IN
         IF ~c.ok THEN EmptyFrame
         ELSE LET renamed == RenameCol(c.df, RawValueCol(kind), outcol)
                  d1 == IF HasCol(c.df, RawValueCol(kind))
                        THEN IF kind = "fuel"
                             THEN SetCol(renamed, outcol,
                                         LAMBDA row : Round2(cap_fuel(row[ColIndex(renamed.cols, outcol)])))
                             ELSE renamed
                        ELSE SetCol(c.df, outcol, LAMBDA row : NA)
              IN RenameCol(d1, RawVesselNameCol, VesselNameCol)

\* `if not df_x.empty: df_final = pd.merge(df_final, df_x, ...)`, in order
RECURSIVE MergeSeq(_, _)
MergeSeq(state, rights) ==
    IF rights = <<>> \/ ~state.ok THEN state
    ELSE MergeSeq(IF FrameEmpty(Head(rights)) THEN state
                  ELSE PdMerge(state.df, Head(rights)),
                  Tail(rights))

BaseFrame(names) ==
    [cols |-> <<VesselNameCol>>, rows |-> [r \in DOMAIN names |-> <<Num(names[r])>>]]

MergeAll(names, hinfos, minfos, hullacc, meacc, fuelacc, ciiacc) ==
    LET hull == [k \in DOMAIN hinfos |->
                   ProcessData(hullacc[hinfos[k].power_loss_col_name], "hull",
                               hinfos[k].power_loss_col_name)]
        me == [k \in DOMAIN minfos |->
                   ProcessData(meacc[minfos[k].col_name], "me", minfos[k].col_name)]
        fuel == ProcessData(fuelacc, "fuel", FuelCol)
        cii == ProcessData(ciiacc, "cii", CiiCol)
    IN MergeSeq([ok |-> TRUE, df |-> BaseFrame(names)], hull \o me \o <<fuel, cii>>)

----------------------------------------------------------------------------
(* Classification: lines 305-357 *)

\* `value <= 15` in place of `value < 15`
get_hull_condition_le(value) ==
    IF IsNA(value) THEN "N/A"
    ELSE IF value.n <= Milli(15) THEN "Good"
    ELSE IF Milli(15) <= value.n /\ value.n <= Milli(25) THEN "Average"
    ELSE "Poor"

get_hull_condition(value) ==
    IF IsNA(value) THEN "N/A"
    ELSE IF value.n < Milli(15) THEN "Good"
    ELSE IF Milli(15) <= value.n /\ value.n <= Milli(25) THEN "Average"
    ELSE "Poor"

AnomalyText == "SFOC value is unusually low, indicating potential data anomaly."

\* `value <= 180` in place of `value < 180`
get_me_efficiency_and_comment_le(value) ==
    IF IsNA(value) THEN [tier |-> "N/A", comment |-> ""]
    ELSE IF value.n < Milli(160) THEN [tier |-> "Anomalous data", comment |-> AnomalyText]
    ELSE IF value.n <= Milli(180) THEN [tier |-> "Good", comment |-> ""]
    ELSE IF Milli(180) <= value.n /\ value.n <= Milli(190) THEN [tier |-> "Average", comment |-> ""]
    ELSE [tier |-> "Poor", comment |-> ""]

get_me_efficiency_and_comment(value) ==
    IF IsNA(value) THEN [tier |-> "N/A", comment |-> ""]
    ELSE IF value.n < Milli(160) THEN [tier |-> "Anomalous data", comment |-> AnomalyText]
    ELSE IF value.n < Milli(180) THEN [tier |-> "Good", comment |-> ""]
    ELSE IF Milli(180) <= value.n /\ value.n <= Milli(190) THEN [tier |-> "Average", comment |-> ""]
    ELSE [tier |-> "Poor", comment |-> ""]

\* f"ME Efficiency ({col_name.split(' ')[-2:]}): {comment}": the month is
\* interpolated as the Python list of the label's last two words, e.g.
\* ['Sep', '26']; nums are the numbers interpolated into the text (none).
CommentFragment(col, comment) ==
    [metric |-> "ME Efficiency", month_as |-> "list", mon |-> col.mon, yy |-> col.yy,
     text |-> comment, nums |-> <<>>]

\* " ".join(x).strip()
JoinComments(x) ==
    IF x.l = <<>> THEN Str("")
    ELSE [t |-> "joined", n |-> 0, s |-> "", l |-> x.l]

\* df_final.insert(0, 'S. No.', range(1, 1 + len(df_final)))
InsertSNo(df) ==
    [cols |-> <<SNoCol>> \o df.cols,
     rows |-> [r \in DOMAIN df.rows |-> <<Num(r)>> \o df.rows[r]]]

\* the else branch of line 323 filling "Good" in place of "N/A"
RECURSIVE ApplyHullFillsGood(_, _)
ApplyHullFillsGood(df, hinfos) ==
    IF hinfos = <<>> THEN df
    ELSE LET h == Head(hinfos)
             d == IF HasCol(df, h.power_loss_col_name)
                  THEN SetCol(df, h.col_name,
                              LAMBDA row : Str(get_hull_condition(
                                             row[ColIndex(df.cols, h.power_loss_col_name)])))
                  ELSE SetCol(df, h.col_name, LAMBDA row : Str("Good"))
         IN ApplyHullFillsGood(d, Tail(hinfos))

\* lines 319-323
RECURSIVE ApplyHull(_, _)
ApplyHull(df, hinfos) ==
    IF hinfos = <<>> THEN df
    ELSE LET h == Head(hinfos)
             d == IF HasCol(df, h.power_loss_col_name)
                  THEN SetCol(df, h.col_name,
                              LAMBDA row : Str(get_hull_condition(
                                             row[ColIndex(df.cols, h.power_loss_col_name)])))
                  ELSE SetCol(df, h.col_name, LAMBDA row : Str("N/A"))
         IN ApplyHull(d, Tail(hinfos))

\* lines 342-353
RECURSIVE ApplyMe(_, _)
ApplyMe(df, minfos) ==
    IF minfos = <<>> THEN df
    ELSE LET c == Head(minfos).col_name
             d == IF HasCol(df, c)
                  THEN LET ci == ColIndex(df.cols, c)
                           ti == ColIndex(df.cols, TempCommentsCol)
                           d1 == SetCol(df, TempCommentsCol,
                                   LAMBDA row :
                                     LET comment == get_me_efficiency_and_comment(row[ci]).comment
                                     IN IF comment # ""
                                        THEN ListCell(Append(row[ti].l, CommentFragment(c, comment)))
                                        ELSE row[ti])
                       IN SetCol(d1, c,
                                 LAMBDA row : Str(get_me_efficiency_and_comment(row[ci]).tier))
                  ELSE df
         IN ApplyMe(d, Tail(minfos))

Classified(df, hinfos, minfos) ==
    LET d1 == ApplyHull(InsertSNo(df), hinfos)
        d2 == SetCol(d1, TempCommentsCol, LAMBDA row : ListCell(<<>>))
        d3 == ApplyMe(d2, minfos)
        d4 == SetCol(d3, CommentsCol,
                     LAMBDA row : JoinComments(row[ColIndex(d3.cols, TempCommentsCol)]))
    IN DropCol(d4, TempCommentsCol)

----------------------------------------------------------------------------
(* Column assembly: lines 359-369 *)

desired_columns_order(hinfos, minfos) ==
    <<SNoCol, VesselNameCol>>
    \o [k \in DOMAIN hinfos |-> hinfos[k].col_name]
    \o [k \in DOMAIN minfos |-> minfos[k].col_name]
    \o <<FuelCol, CiiCol, CommentsCol>>

\* the selection of the desired columns taken in the order of the frame
AssembledFrameOrder(df, hinfos, minfos) ==
    LET wanted == Range(desired_columns_order(hinfos, minfos))
        existing == SelectSeq(df.cols, LAMBDA c : c \in wanted)
    IN [cols |-> existing,
        rows |-> [r \in DOMAIN df.rows |->
                    [j \in DOMAIN existing |-> df.rows[r][ColIndex(df.cols, existing[j])]]]]

\* df_final[existing_and_ordered_columns]
Assembled(df, hinfos, minfos) ==
    LET existing == SelectSeq(desired_columns_order(hinfos, minfos), LAMBDA c : HasCol(df, c))
    IN [cols |-> existing,
        rows |-> [r \in DOMAIN df.rows |->
                    [j \in DOMAIN existing |-> df.rows[r][ColIndex(df.cols, existing[j])]]]]

----------------------------------------------------------------------------
(* Session state: lines 29-43 *)

\* the value None of report_data, and a report_data holding a table
NoReport == [is_none |-> TRUE, df |-> EmptyFrame]
ReportOf(df) == [is_none |-> FALSE, df |-> df]

\* st.session_state after the initialisation of lines 30-43; trigger_rerun is
\* not set yet, which main reads as False
InitialSession ==
    [selected_vessels |-> {}, report_data |-> NoReport, search_query |-> "",
     report_months |-> 2, trigger_rerun |-> FALSE]

\* the widgets as first drawn: no box ticked, the radio on its default index
\* 1 (two months), nothing typed; no rerun requested, nothing rendered yet
InitialUi ==
    [checkbox |-> {}, radio |-> 2, text_input |-> "", reruns |-> 0,
     last |-> "load", returned |-> NoReport, word_data |-> "not rendered",
     pending |-> TRUE]

----------------------------------------------------------------------------
(* The state machine of query_report_data *)

\* today's dates tried: after a 31-day month, and in March of a non-leap year
Todays == {[y |-> 2026, m |-> 11, d |-> 4], [y |-> 2026, m |-> 3, d |-> 10]}

Fleet(n) == [k \in 1..n |-> k]
\* largest fleet of the pipeline specification
MaxFleet == 2
\* a request naming one vessel twice
DupRequest == <<1, 1>>

NoDate == [y |-> 0, m |-> 0, d |-> 0]

InitWith(lists, months, days) ==
    /\ pc = "start"
    /\ vessel_names \in lists
    /\ num_months \in months
    /\ today \in days
    /\ hull_dates_info = <<>>
    /\ me_dates_info = <<>>
    /\ all_hull_data_by_month = <<>>
    /\ all_me_data_by_month = <<>>
    /\ all_fuel_saving_data = <<>>
    /\ all_cii_data = <<>>
    /\ total_batches = 0
    /\ i = 0
    /\ batch_vessels = <<>>
    /\ batch_queries = <<>>
    /\ q = 1
    /\ batches = <<>>
    /\ progress = <<>>
    /\ calls = <<>>
    /\ retrieved = FALSE
    /\ df_final = EmptyFrame
    /\ session_state = InitialSession
    /\ ui = InitialUi

\* the pipeline specification: no vessel, a fleet, a request with a duplicate;
\* no month, one month and the default of two months
Init == InitWith({Fleet(0), Fleet(MaxFleet), DupRequest}, {0, 1, 2}, Todays)

\* the early return placed after the creation of the progress bar
ReturnEmptyAfterProgress ==
    /\ pc = "start"
    /\ vessel_names = <<>>
    /\ pc' = "done"
    /\ df_final' = EmptyFrame
    /\ progress' = << <<0, 1>> >>
    /\ UNCHANGED <<session_state, ui, vessel_names, num_months, today, hull_dates_info, me_dates_info,
                   all_hull_data_by_month, all_me_data_by_month, all_fuel_saving_data,
                   all_cii_data, total_batches, i, batch_vessels, batch_queries, q,
                   batches, calls, retrieved>>

\* lines 116-117: `if not vessel_names: return pd.DataFrame()`
ReturnEmpty ==
    /\ pc = "start"
    /\ vessel_names = <<>>
    /\ pc' = "done"
    /\ df_final' = EmptyFrame
    /\ UNCHANGED <<session_state, ui, vessel_names, num_months, today, hull_dates_info, me_dates_info,
                   all_hull_data_by_month, all_me_data_by_month, all_fuel_saving_data,
                   all_cii_data, total_batches, i, batch_vessels, batch_queries, q,
                   batches, progress, calls, retrieved>>

\* a planner that plans no month when the request repeats its first vessel
PlanByFleet ==
    /\ pc = "start"
    /\ vessel_names # <<>>
    /\ LET n == IF Len(vessel_names) > 1 /\ vessel_names[1] = vessel_names[Len(vessel_names)]
                THEN 0 ELSE num_months
       IN /\ hull_dates_info' = PlanHull(today, n)
          /\ me_dates_info' = PlanMe(today, n)
    /\ all_hull_data_by_month' =
          [c \in {hull_dates_info'[k].power_loss_col_name : k \in DOMAIN hull_dates_info'} |-> <<>>]
    /\ all_me_data_by_month' =
          [c \in {me_dates_info'[k].col_name : k \in DOMAIN me_dates_info'} |-> <<>>]
    /\ all_fuel_saving_data' = <<>>
    /\ all_cii_data' = <<>>
    /\ total_batches' = (Len(vessel_names) + BatchSize - 1) \div BatchSize
    /\ i' = 0
    /\ pc' = "batch"
    /\ UNCHANGED <<session_state, ui, vessel_names, num_months, today, batch_vessels, batch_queries, q,
                   batches, progress, calls, retrieved, df_final>>

\* lines 119-160: the planner, the accumulators, total_batches
Plan ==
    /\ pc = "start"
    /\ vessel_names # <<>>
    /\ hull_dates_info' = PlanHull(today, num_months)
    /\ me_dates_info' = PlanMe(today, num_months)
    /\ all_hull_data_by_month' =
          [c \in {hull_dates_info'[k].power_loss_col_name : k \in DOMAIN hull_dates_info'} |-> <<>>]
    /\ all_me_data_by_month' =
          [c \in {me_dates_info'[k].col_name : k \in DOMAIN me_dates_info'} |-> <<>>]
    /\ all_fuel_saving_data' = <<>>
    /\ all_cii_data' = <<>>
    /\ total_batches' = (Len(vessel_names) + BatchSize - 1) \div BatchSize
    /\ i' = 0
    /\ pc' = "batch"
    /\ UNCHANGED <<session_state, ui, vessel_names, num_months, today, batch_vessels, batch_queries, q,
                   batches, progress, calls, retrieved, df_final>>

\* a slice that starts one element late
BatchSliceSkipsFirst(names, start) ==
    SubSeq(names, start + 2,
           IF start + BatchSize < Len(names) THEN start + BatchSize ELSE Len(names))

\* vessel_names[i:i+batch_size] (i is 0-based; the slice is clipped to the list)
BatchSlice(names, start) ==
    SubSeq(names, start + 1,
           IF start + BatchSize < Len(names) THEN start + BatchSize ELSE Len(names))

\* the triples of one batch with the two fixed queries placed first
BatchQueriesFixedFirst(hinfos, minfos, bv) ==
    << [query_name |-> FixedCol("Potential Fuel Saving"), kind |-> "fuel",
           key |-> FuelCol,
           sql |-> [vessels |-> bv, date |-> NoDate, interval_start |-> 0, interval_end |-> 0]],
          [query_name |-> FixedCol("YTD CII"), kind |-> "cii",
           key |-> CiiCol,
           sql |-> [vessels |-> bv, date |-> NoDate, interval_start |-> 0, interval_end |-> 0]] >>
    \o [k \in DOMAIN hinfos |->
        [query_name |-> hinfos[k].power_loss_col_name, kind |-> "hull",
         key |-> hinfos[k].power_loss_col_name,
         sql |-> [vessels |-> bv, date |-> hinfos[k].date_str,
                  interval_start |-> 0, interval_end |-> 0]]]
    \o [k \in DOMAIN minfos |->
        [query_name |-> minfos[k].col_name, kind |-> "me",
         key |-> minfos[k].col_name,
         sql |-> [vessels |-> bv, date |-> NoDate,
                  interval_start |-> minfos[k].interval_start_str,
                  interval_end |-> minfos[k].interval_end_str]]]

\* lines 174-214: the (query_name, query, data_list) triples of one batch
BatchQueries(hinfos, minfos, bv) ==
    [k \in DOMAIN hinfos |->
        [query_name |-> hinfos[k].power_loss_col_name, kind |-> "hull",
         key |-> hinfos[k].power_loss_col_name,
         sql |-> [vessels |-> bv, date |-> hinfos[k].date_str,
                  interval_start |-> 0, interval_end |-> 0]]]
    \o [k \in DOMAIN minfos |->
        [query_name |-> minfos[k].col_name, kind |-> "me",
         key |-> minfos[k].col_name,
         sql |-> [vessels |-> bv, date |-> NoDate,
                  interval_start |-> minfos[k].interval_start_str,
                  interval_end |-> minfos[k].interval_end_str]]]
    \o << [query_name |-> FixedCol("Potential Fuel Saving"), kind |-> "fuel",
           key |-> FuelCol,
           sql |-> [vessels |-> bv, date |-> NoDate, interval_start |-> 0, interval_end |-> 0]],
          [query_name |-> FixedCol("YTD CII"), kind |-> "cii",
           key |-> CiiCol,
           sql |-> [vessels |-> bv, date |-> NoDate, interval_start |-> 0, interval_end |-> 0]] >>

\* the progress computed from the zero-based batch index
BeginBatchReportsIndex ==
    /\ pc = "batch"
    /\ i < Len(vessel_names)
    /\ batch_vessels' = BatchSlice(vessel_names, i)
    /\ progress' = Append(progress, <<i \div BatchSize, total_batches>>)
    /\ batch_queries' = BatchQueries(hull_dates_info, me_dates_info, batch_vessels')
    /\ batches' = Append(batches, batch_vessels')
    /\ q' = 1
    /\ pc' = "query"
    /\ UNCHANGED <<session_state, ui, vessel_names, num_months, today, hull_dates_info, me_dates_info,
                   all_hull_data_by_month, all_me_data_by_month, all_fuel_saving_data,
                   all_cii_data, total_batches, i, calls, retrieved, df_final>>

\* lines 162-214: the head of one iteration of the batch loop
BeginBatch ==
    /\ pc = "batch"
    /\ i < Len(vessel_names)
    /\ batch_vessels' = BatchSlice(vessel_names, i)
    /\ progress' = Append(progress, <<i \div BatchSize + 1, total_batches>>)
    /\ batch_queries' = BatchQueries(hull_dates_info, me_dates_info, batch_vessels')
    /\ batches' = Append(batches, batch_vessels')
    /\ q' = 1
    /\ pc' = "query"
    /\ UNCHANGED <<session_state, ui, vessel_names, num_months, today, hull_dates_info, me_dates_info,
                   all_hull_data_by_month, all_me_data_by_month, all_fuel_saving_data,
                   all_cii_data, total_batches, i, calls, retrieved, df_final>>

\* lines 223-225: the loop is exhausted
EndLoop ==
    /\ pc = "batch"
    /\ i >= Len(vessel_names)
    /\ pc' = "merge"
    /\ UNCHANGED <<session_state, ui, vessel_names, num_months, today, hull_dates_info, me_dates_info,
                   all_hull_data_by_month, all_me_data_by_month, all_fuel_saving_data,
                   all_cii_data, total_batches, i, batch_vessels, batch_queries, q,
                   batches, progress, calls, retrieved, df_final>>

\* calls of this run whose result was truthy
DataCalls(cs) == Cardinality({k \in DOMAIN cs : cs[k].truthy})

\* what the service may answer to a query
Outcomes(kind, bv) ==
    {<<tr, None>> : tr \in Transports \ {"ok"}}
    \cup {<<"ok", b>> : b \in Bodies(kind, bv)}

\* data_list.extend(result), on the accumulator the triple refers to
Extend(acc, result) == acc \o result.items

\* lines 217-221: one executor call of the current batch.  list.extend raises
\* TypeError for a result that is not iterable (a JSON number).
Query ==
    /\ pc = "query"
    /\ \E o \in Outcomes(batch_queries[q].kind, batch_vessels) :
         LET bq == batch_queries[q]
             result == invoke_lambda_function_url(o[1], o[2])
         IN /\ Truthy(result) => DataCalls(calls) < MaxData
            /\ calls' = Append(calls, [batch_num |-> i \div BatchSize + 1,
                                       index |-> q,
                                       query_name |-> bq.query_name,
                                       truthy |-> Truthy(result),
                                       statusCode |-> result.statusCode])
            /\ retrieved' = (retrieved \/ o[1] = "ok")
            /\ IF Truthy(result) /\ result.kind = "number"
               THEN /\ pc' = "raised"
                    /\ UNCHANGED <<all_hull_data_by_month, all_me_data_by_month,
                                   all_fuel_saving_data, all_cii_data, i, q>>
               ELSE /\ all_hull_data_by_month' =
                         IF Truthy(result) /\ bq.kind = "hull"
                         THEN [all_hull_data_by_month EXCEPT ![bq.key] = Extend(@, result)]
                         ELSE all_hull_data_by_month
                    /\ all_me_data_by_month' =
                         IF Truthy(result) /\ bq.kind = "me"
                         THEN [all_me_data_by_month EXCEPT ![bq.key] = Extend(@, result)]
                         ELSE all_me_data_by_month
                    /\ all_fuel_saving_data' =
                         IF Truthy(result) /\ bq.kind = "fuel"
                         THEN Extend(all_fuel_saving_data, result)
                         ELSE all_fuel_saving_data
                    /\ all_cii_data' =
                         IF Truthy(result) /\ bq.kind = "cii"
                         THEN Extend(all_cii_data, result)
                         ELSE all_cii_data
                    /\ IF q < Len(batch_queries)
                       THEN q' = q + 1 /\ pc' = "query" /\ i' = i
                       ELSE q' = q /\ pc' = "batch" /\ i' = i + BatchSize
    /\ UNCHANGED <<session_state, ui, vessel_names, num_months, today, hull_dates_info, me_dates_info,
                   total_batches, batch_vessels, batch_queries, batches, progress, df_final>>

\* lines 228-302: the merges; pd.merge raising KeyError ends the run
Merge ==
    /\ pc = "merge"
    /\ LET m == MergeAll(vessel_names, hull_dates_info, me_dates_info,
                         all_hull_data_by_month, all_me_data_by_month,
                         all_fuel_saving_data, all_cii_data)
       IN IF ~m.ok THEN pc' = "raised" /\ df_final' = df_final
          ELSE IF FrameEmpty(m.df) THEN pc' = "done" /\ df_final' = EmptyFrame
          ELSE pc' = "classify" /\ df_final' = m.df
    /\ UNCHANGED <<session_state, ui, vessel_names, num_months, today, hull_dates_info, me_dates_info,
                   all_hull_data_by_month, all_me_data_by_month, all_fuel_saving_data,
                   all_cii_data, total_batches, i, batch_vessels, batch_queries, q,
                   batches, progress, calls, retrieved>>

\* lines 305-357
Classify ==
    /\ pc = "classify"
    /\ df_final' = Classified(df_final, hull_dates_info, me_dates_info)
    /\ pc' = "assemble"
    /\ UNCHANGED <<session_state, ui, vessel_names, num_months, today, hull_dates_info, me_dates_info,
                   all_hull_data_by_month, all_me_data_by_month, all_fuel_saving_data,
                   all_cii_data, total_batches, i, batch_vessels, batch_queries, q,
                   batches, progress, calls, retrieved>>

\* lines 359-372
Assemble ==
    /\ pc = "assemble"
    /\ df_final' = Assembled(df_final, hull_dates_info, me_dates_info)
    /\ pc' = "done"
    /\ UNCHANGED <<session_state, ui, vessel_names, num_months, today, hull_dates_info, me_dates_info,
                   all_hull_data_by_month, all_me_data_by_month, all_fuel_saving_data,
                   all_cii_data, total_batches, i, batch_vessels, batch_queries, q,
                   batches, progress, calls, retrieved>>

Next ==
    \/ ReturnEmpty
    \/ Plan
    \/ BeginBatch
    \/ Query
    \/ EndLoop
    \/ Merge
    \/ Classify
    \/ Assemble

Spec == Init /\ [][Next]_vars

\* the batching specification: every fleet size up to MaxVessels, with the
\* two fixed queries per batch only (N = 0)
InitBatch == InitWith({Fleet(n) : n \in 0..MaxVessels}, {0}, {[y |-> 2026, m |-> 3, d |-> 10]})

SpecBatch == InitBatch /\ [][Next]_vars

----------------------------------------------------------------------------
(* The classification specification: the run of one vessel and one month has  *)
(* reached the end of its batch loop, the hull and ME queries having returned *)
(* one row each with values around the tier thresholds.                       *)

\* values within Near thousandths of a threshold are tried
Near == 2

HullInputs == {Num(Milli(b) + e) : b \in {15, 25}, e \in (0 - Near)..Near} \cup {Num(0), NA}
MeInputs == {Num(Milli(b) + e) : b \in {160, 180, 190}, e \in (0 - Near)..Near}
            \cup {Num(Milli(150)), NA}

InitClassify ==
    \E h \in HullInputs, m \in MeInputs :
      LET t == [y |-> 2026, m |-> 3, d |-> 10]
          hi == PlanHull(t, 1)
          mi == PlanMe(t, 1)
          bq == BatchQueries(hi, mi, Fleet(1))
      IN /\ pc = "merge"
         /\ vessel_names = Fleet(1)
         /\ num_months = 1
         /\ today = t
         /\ hull_dates_info = hi
         /\ me_dates_info = mi
         /\ all_hull_data_by_month = [c \in {hi[1].power_loss_col_name} |-> <<Row(1, h)>>]
         /\ all_me_data_by_month = [c \in {mi[1].col_name} |-> <<Row(1, m)>>]
         /\ all_fuel_saving_data = <<>>
         /\ all_cii_data = <<>>
         /\ total_batches = 1
         /\ i = BatchSize
         /\ batch_vessels = Fleet(1)
         /\ batch_queries = bq
         /\ q = Len(bq)
         /\ batches = <<Fleet(1)>>
         /\ progress = << <<1, 1>> >>
         /\ calls = [k \in DOMAIN bq |-> [batch_num |-> 1, index |-> k,
                                          query_name |-> bq[k].query_name,
                                          truthy |-> k <= 2, statusCode |-> 0]]
         /\ retrieved = TRUE
         /\ df_final = EmptyFrame
         /\ session_state = InitialSession
         /\ ui = InitialUi

NextClassify == Merge \/ Classify \/ Assemble

SpecClassify == InitClassify /\ [][NextClassify]_vars

----------------------------------------------------------------------------
(* Specifications that start where the batch loop of a one-batch run ends,   *)
(* with given accumulators.                                                   *)

\* the log of the calls of one batch: a call was truthy when it left rows
CallsOf(bq, hullacc, meacc, fuelacc, ciiacc) ==
    [k \in DOMAIN bq |->
       [batch_num |-> 1, index |-> k, query_name |-> bq[k].query_name,
        truthy |-> CASE bq[k].kind = "hull" -> hullacc[bq[k].key] # <<>>
                     [] bq[k].kind = "me" -> meacc[bq[k].key] # <<>>
                     [] bq[k].kind = "fuel" -> fuelacc # <<>>
                     [] bq[k].kind = "cii" -> ciiacc # <<>>,
        statusCode |-> 0]]

\* the state at line 223 of a run over at most batch_size vessels
AfterLoop(names, n, t, hullacc, meacc, fuelacc, ciiacc) ==
    LET bq == BatchQueries(PlanHull(t, n), PlanMe(t, n), names) IN
    /\ pc = "merge"
    /\ vessel_names = names
    /\ num_months = n
    /\ today = t
    /\ hull_dates_info = PlanHull(t, n)
    /\ me_dates_info = PlanMe(t, n)
    /\ all_hull_data_by_month = hullacc
    /\ all_me_data_by_month = meacc
    /\ all_fuel_saving_data = fuelacc
    /\ all_cii_data = ciiacc
    /\ total_batches = 1
    /\ i = BatchSize
    /\ batch_vessels = names
    /\ batch_queries = bq
    /\ q = Len(bq)
    /\ batches = <<names>>
    /\ progress = << <<1, 1>> >>
    /\ calls = CallsOf(bq, hullacc, meacc, fuelacc, ciiacc)
    /\ retrieved = TRUE
    /\ df_final = EmptyFrame
    /\ session_state = InitialSession
    /\ ui = InitialUi

March10 == [y |-> 2026, m |-> 3, d |-> 10]

\* fuel-saving values around the two limits of the cap, the examples 7.2, -3
\* and 3.2, a value with three decimals, and a null
FuelInputs == {Num(Milli(b) + e) : b \in {0, 5}, e \in (0 - Near)..Near}
              \cup {Num(7200), Num(0 - 3000), Num(3200), Num(3456), NA}

\* the fuel-saving specification: two vessels, no monthly descriptor, the
\* fuel-saving query returned one row per vessel
InitFuel ==
    \E a \in FuelInputs, b \in FuelInputs :
      AfterLoop(Fleet(2), 0, March10, <<>>, <<>>, <<Row(1, a), Row(2, b)>>, <<>>)

SpecFuel == InitFuel /\ [][NextClassify]_vars

\* rows of one query of a two-vessel run in which the value key is absent from
\* every row, from the row of one vessel only, or from none; or no row at all
SchemaRows(kind) ==
    {<<>>,
     <<RowNoVal(1)>>,
     <<RowNoVal(1), RowNoVal(2)>>,
     <<Row(1, TypicalCell(kind)), RowNoVal(2)>>,
     <<RowNoVal(1), Row(2, TypicalCell(kind))>>,
     <<Row(1, TypicalCell(kind)), Row(2, TypicalCell(kind))>>}

\* the schema specification: two vessels, one month, the rows of each of the
\* four queries with or without their value key
InitSchema ==
    \E h \in SchemaRows("hull"), m \in SchemaRows("me"),
       f \in SchemaRows("fuel"), c \in SchemaRows("cii") :
      AfterLoop(Fleet(2), 1, March10,
                [x \in {PlanHull(March10, 1)[1].power_loss_col_name} |-> h],
                [x \in {PlanMe(March10, 1)[1].col_name} |-> m], f, c)

SpecSchema == InitSchema /\ [][NextClassify]_vars

----------------------------------------------------------------------------
(* Properties *)

Distinct(s) == \A a, b \in DOMAIN s : a # b => s[a] # s[b]

\* the rows of df whose 'Vessel Name' is v
RowsOf(df, v) ==
    {r \in DOMAIN df.rows : HasCol(df, VesselNameCol) /\ Cell(df, r, VesselNameCol) = Num(v)}

IsTierCol(c) == c.kind \in {"Hull Condition", "ME Efficiency"}

LoopOver == pc \in {"merge", "classify", "assemble", "done"}

\* C1: the returned table has exactly one row per requested vessel: as many
\* rows as vessels requested, and each requested name in exactly one row
\* (stated for requests of distinct names).
C1_OneRowPerVessel ==
    (pc = "done" /\ Distinct(vessel_names)) =>
        /\ Len(df_final.rows) = Len(vessel_names)
        /\ \A v \in Range(vessel_names) : Cardinality(RowsOf(df_final, v)) = 1

\* C2: query_report_data never raises, whatever the executor calls return.
C2_NeverRaises == pc # "raised"

\* C3: once the batch loop is over, the batches are contiguous slices of at
\* most BatchSize vessels that cover the vessel list exactly once, in order,
\* and their number is ceil(|V| / BatchSize); while the loop runs the batches
\* processed so far are a prefix of the list; 23 vessels give 10, 10, 3.
C3_BatchPartition ==
    /\ \A b \in DOMAIN batches : 1 <= Len(batches[b]) /\ Len(batches[b]) <= BatchSize
    /\ Len(Concat(batches)) <= Len(vessel_names)
    /\ Concat(batches) = SubSeq(vessel_names, 1, Len(Concat(batches)))
    /\ (LoopOver \/ (pc = "done" /\ vessel_names = <<>>)) =>
          /\ Concat(batches) = vessel_names
          /\ Len(batches) * BatchSize >= Len(vessel_names)
          /\ (Len(batches) - 1) * BatchSize < Len(vessel_names) \/ vessel_names = <<>>
          /\ Len(vessel_names) = 23 =>
                [b \in DOMAIN batches |-> Len(batches[b])] = <<10, 10, 3>>

C3_Witness == pc = "done" /\ Len(vessel_names) = 23 /\ Len(batches) = 3

\* C4: when every executor call of the run failed, the run does not raise and
\* returns one row per requested vessel, in request order, in which every
\* tier cell present is N/A.
C4_TotalAbsence ==
    (~retrieved /\ vessel_names # <<>>) =>
        /\ pc # "raised"
        /\ pc = "done" =>
              /\ Len(df_final.rows) = Len(vessel_names)
              /\ \A r \in DOMAIN df_final.rows :
                    /\ Cell(df_final, r, VesselNameCol) = Num(vessel_names[r])
                    /\ \A j \in DOMAIN df_final.cols :
                          IsTierCol(df_final.cols[j]) => df_final.rows[r][j] = Str("N/A")

C4_Witness ==
    /\ pc = "done" /\ ~retrieved /\ Len(vessel_names) > 1 /\ num_months = 2
    /\ Len(calls) = 6
    /\ \E j \in DOMAIN df_final.cols : IsTierCol(df_final.cols[j])

\* C5: for an empty vessel list the function returns the empty table, having
\* issued no executor call and reported no progress.
C5_EmptySelection ==
    vessel_names = <<>> =>
        /\ calls = <<>>
        /\ progress = <<>>
        /\ batches = <<>>
        /\ pc \in {"start", "done"}
        /\ pc = "done" => df_final = EmptyFrame

C5_Witness == pc = "done" /\ vessel_names = <<>> /\ df_final = EmptyFrame

\* the rows items holds for vessel v
ItemsFor(items, v) ==
    {k \in DOMAIN items : items[k].shape = "dict" /\ items[k].has_name /\ items[k].name = v}

\* every item is a row naming its vessel, and exactly one of them names v
OneRowFor(items, v) ==
    /\ \A k \in DOMAIN items : items[k].shape = "dict" /\ items[k].has_name
    /\ Cardinality(ItemsFor(items, v)) = 1

\* the raw value items holds for v: NA when no row names v, or the row has no
\* value key or a null value
RawOf(items, v) ==
    IF Cardinality(ItemsFor(items, v)) = 1
    THEN LET k == CHOOSE k \in ItemsFor(items, v) : TRUE
         IN IF items[k].has_val THEN items[k].val ELSE NA
    ELSE NA

\* no row of items gives v a value
NoRawFor(items, v) ==
    \A k \in ItemsFor(items, v) : ~items[k].has_val \/ IsNA(items[k].val)

HullItems(k) == all_hull_data_by_month[hull_dates_info[k].power_loss_col_name]
MeItems(k) == all_me_data_by_month[me_dates_info[k].col_name]

\* the comment fragments of row r that name the month of column c
FragmentsFor(df, r, c) ==
    IF HasCol(df, CommentsCol)
    THEN {f \in Range(Cell(df, r, CommentsCol).l) : f.mon = c.mon /\ f.yy = c.yy}
    ELSE {}

\* the tiers of section 4.4 of the specification
SpecHullTier(n) ==
    IF n < Milli(15) THEN "Good" ELSE IF n <= Milli(25) THEN "Average" ELSE "Poor"

SpecMeTier(n) ==
    IF n < Milli(160) THEN "Anomalous"
    ELSE IF n < Milli(180) THEN "Good"
    ELSE IF n <= Milli(190) THEN "Average" ELSE "Poor"

\* "ME Efficiency (<month>): SFOC value is <v> g/kWh, unusually low, ..."
SpecFragment(c, n) ==
    [metric |-> "ME Efficiency", month_as |-> "text", mon |-> c.mon, yy |-> c.yy,
     text |-> "SFOC value is {} g/kWh, unusually low, indicating potential data anomaly.",
     nums |-> <<n>>]

\* C6: in the returned table, for every requested vessel and every monthly
\* descriptor, hull and ME alike: when the descriptor returned one row with a
\* value for the vessel, the month's tier cell is the classification of that
\* value; when it obtained no raw value for the vessel, the tier cell exists,
\* is N/A, and the vessel's comments hold no fragment for that month.
C6_TierFromValue ==
    (pc = "done" /\ Distinct(vessel_names) /\ vessel_names # <<>>) =>
      \A k \in 1..num_months : \A v \in Range(vessel_names) :
        /\ LET c == hull_dates_info[k].col_name
               x == RawOf(HullItems(k), v)
           IN /\ (OneRowFor(HullItems(k), v) /\ ~IsNA(x)) =>
                    /\ HasCol(df_final, c)
                    /\ \A r \in RowsOf(df_final, v) :
                          Cell(df_final, r, c) = Str(get_hull_condition(x))
              /\ NoRawFor(HullItems(k), v) =>
                    /\ HasCol(df_final, c)
                    /\ \A r \in RowsOf(df_final, v) : Cell(df_final, r, c) = Str("N/A")
        /\ LET c == me_dates_info[k].col_name
               x == RawOf(MeItems(k), v)
           IN /\ (OneRowFor(MeItems(k), v) /\ ~IsNA(x)) =>
                    /\ HasCol(df_final, c)
                    /\ \A r \in RowsOf(df_final, v) :
                          Cell(df_final, r, c) = Str(get_me_efficiency_and_comment(x).tier)
              /\ NoRawFor(MeItems(k), v) =>
                    /\ HasCol(df_final, c)
                    /\ \A r \in RowsOf(df_final, v) :
                          /\ Cell(df_final, r, c) = Str("N/A")
                          /\ FragmentsFor(df_final, r, c) = {}

\* C7: the hull tier of a non-missing value v is Good for v < 15, Average for
\* 15 <= v <= 25 and Poor for v > 25 (so 15 and 25 are Average and anything
\* above 25 is Poor): the tier cell of the vessel whose hull query returned v.
C7_HullTiers ==
    pc \in {"assemble", "done"} =>
      \A k \in DOMAIN hull_dates_info : \A v \in Range(vessel_names) :
        LET c == hull_dates_info[k].col_name
            x == RawOf(HullItems(k), v)
        IN (OneRowFor(HullItems(k), v) /\ ~IsNA(x)) =>
              /\ HasCol(df_final, c)
              /\ \A r \in RowsOf(df_final, v) :
                    Cell(df_final, r, c) = Str(SpecHullTier(x.n))

C7_Witness ==
    /\ pc = "done"
    /\ RawOf(HullItems(1), 1) = Num(Milli(25) + 1)
    /\ Cell(df_final, 1, hull_dates_info[1].col_name) = Str("Poor")

\* C8: the ME tier of a non-missing value v >= 160 is Good for 160 <= v < 180,
\* Average for 180 <= v <= 190 and Poor for v > 190, and the vessel's comments
\* hold no fragment for that month.
C8_MeTiers ==
    pc \in {"assemble", "done"} =>
      \A k \in DOMAIN me_dates_info : \A v \in Range(vessel_names) :
        LET c == me_dates_info[k].col_name
            x == RawOf(MeItems(k), v)
        IN (OneRowFor(MeItems(k), v) /\ ~IsNA(x) /\ x.n >= Milli(160)) =>
              /\ HasCol(df_final, c)
              /\ \A r \in RowsOf(df_final, v) :
                    /\ Cell(df_final, r, c) = Str(SpecMeTier(x.n))
                    /\ pc = "done" => FragmentsFor(df_final, r, c) = {}

C8_Witness ==
    /\ pc = "done"
    /\ RawOf(MeItems(1), 1) = Num(Milli(180))
    /\ Cell(df_final, 1, me_dates_info[1].col_name) = Str("Average")
    /\ Cell(df_final, 1, CommentsCol) = Str("")

\* C9: a monthly ME value v < 160 gives the tier label Anomalous and a comment
\* fragment "ME Efficiency (<month>): SFOC value is <v> g/kWh, unusually low,
\* indicating potential data anomaly." that holds the value v.
C9_AnomalyComment ==
    (pc = "done" /\ Distinct(vessel_names)) =>
      \A k \in DOMAIN me_dates_info : \A v \in Range(vessel_names) :
        LET c == me_dates_info[k].col_name
            x == RawOf(MeItems(k), v)
        IN (OneRowFor(MeItems(k), v) /\ ~IsNA(x) /\ x.n < Milli(160)
              /\ Distinct([j \in DOMAIN me_dates_info |-> me_dates_info[j].col_name])) =>
              /\ HasCol(df_final, c)
              /\ \A r \in RowsOf(df_final, v) :
                    /\ Cell(df_final, r, c) = Str(SpecMeTier(x.n))
                    /\ SpecFragment(c, x.n) \in Range(Cell(df_final, r, CommentsCol).l)

\* C10: every CII cell of the returned table is one of the upper-case letters
\* A..E or N/A: a raw rating is upper-cased, an unrecognized or missing
\* rating becomes N/A.
C10_CiiNormalized ==
    (pc = "done" /\ HasCol(df_final, CiiCol)) =>
      \A r \in DOMAIN df_final.rows :
        Cell(df_final, r, CiiCol) \in {Str("A"), Str("B"), Str("C"), Str("D"), Str("E"), Str("N/A")}

\* the capping of section 4.4 of the specification
SpecCap(x) ==
    IF IsNA(x) THEN NA
    ELSE IF x.n > Milli(5) THEN Num(4900)
    ELSE IF x.n < 0 THEN Num(0)
    ELSE x

\* C11: the cap applied to a fuel-saving value x gives 4.9 for x > 5, 0.0 for
\* x < 0, x itself otherwise and missing for missing, and capping a capped
\* value changes nothing; the cell stored for the vessel is that capped value
\* (rounded to two decimals by line 273, so identical for a value of at most
\* two decimals), capping the stored cell changes nothing, and 7.2, -3 and 3.2
\* are stored as 4.9, 0.0 and 3.2.
C11_FuelCap ==
    \A k \in DOMAIN all_fuel_saving_data :
      LET it == all_fuel_saving_data[k]
          x == it.val
      IN (it.shape = "dict" /\ it.has_val /\ OneRowFor(all_fuel_saving_data, it.name)
            /\ Distinct(vessel_names)) =>
            /\ cap_fuel(x) = SpecCap(x)
            /\ cap_fuel(cap_fuel(x)) = cap_fuel(x)
            /\ pc = "done" =>
                  /\ HasCol(df_final, FuelCol)
                  /\ \A r \in RowsOf(df_final, it.name) :
                        LET c == Cell(df_final, r, FuelCol)
                        IN /\ c = Round2(SpecCap(x))
                           /\ cap_fuel(c) = c
                           /\ (x.n % 10 = 0) => c = SpecCap(x)
                           /\ x = Num(7200) => c = Num(4900)
                           /\ x = Num(0 - 3000) => c = Num(0)
                           /\ x = Num(3200) => c = Num(3200)

C11_Witness ==
    /\ pc = "done"
    /\ all_fuel_saving_data = <<Row(1, Num(7200)), Row(2, Num(0 - 3000))>>
    /\ Cell(df_final, 1, FuelCol) = Num(4900)
    /\ Cell(df_final, 2, FuelCol) = Num(0)

\* a is an order-preserving sub-list of b
RECURSIVE IsSubSeq(_, _)
IsSubSeq(a, b) ==
    IF a = <<>> THEN TRUE
    ELSE IF b = <<>> THEN FALSE
    ELSE IF Head(a) = Head(b) THEN IsSubSeq(Tail(a), Tail(b))
    ELSE IsSubSeq(a, Tail(b))

\* every item is a row naming its vessel and carrying the value key
ValueRows(items) ==
    /\ items # <<>>
    /\ \A k \in DOMAIN items :
          items[k].shape = "dict" /\ items[k].has_name /\ items[k].has_val

\* the column list of section 4.5 of the specification
SpecColumns(hinfos, minfos) ==
    <<SNoCol, VesselNameCol>>
    \o [k \in DOMAIN hinfos |-> hinfos[k].power_loss_col_name]
    \o [k \in DOMAIN hinfos |-> hinfos[k].col_name]
    \o [k \in DOMAIN minfos |-> minfos[k].col_name]
    \o <<CiiCol, CommentsCol>>

\* C12: the columns of the returned table are, in this order, the sequence
\* number, the vessel name, the raw hull-roughness column of each month, the
\* hull tier column of each month, the ME tier column of each month, the CII
\* rating and the comments: every returned column is one of them, in that
\* order, and the raw hull-roughness column of a month whose query returned
\* rows with values is among them.
C12_ColumnOrder ==
    (pc = "done" /\ vessel_names # <<>>) =>
        /\ IsSubSeq(df_final.cols, SpecColumns(hull_dates_info, me_dates_info))
        /\ \A k \in DOMAIN hull_dates_info :
              ValueRows(HullItems(k)) =>
                  HasCol(df_final, hull_dates_info[k].power_loss_col_name)

\* C13: in the returned table, the column of a descriptor that obtained no
\* data in the whole run (every call failed or returned nothing) is absent:
\* the hull tier column of such a month, the ME tier column of such a month,
\* the fuel-saving column and the CII column.
C13_NoDataColumnsAbsent ==
    (pc = "done" /\ vessel_names # <<>>) =>
        /\ \A k \in DOMAIN hull_dates_info :
              HullItems(k) = <<>> => ~HasCol(df_final, hull_dates_info[k].col_name)
        /\ \A k \in DOMAIN me_dates_info :
              MeItems(k) = <<>> => ~HasCol(df_final, me_dates_info[k].col_name)
        /\ all_fuel_saving_data = <<>> => ~HasCol(df_final, FuelCol)
        /\ all_cii_data = <<>> => ~HasCol(df_final, CiiCol)

\* the canonical column list of a run made on date t for n months
CanonicalColumns(t, n) == desired_columns_order(PlanHull(t, n), PlanMe(t, n))

\* C14: whatever the executor returned, the columns of the returned table are
\* an order-preserving sub-list of one list fixed by (today, N), so any two
\* columns keep the same relative order in every run; and every row holds one
\* cell per column (a column is present for all rows or for none).
C14_ColumnOrderStable ==
    (pc = "done" /\ vessel_names # <<>>) =>
        /\ IsSubSeq(df_final.cols, CanonicalColumns(today, num_months))
        /\ \A r \in DOMAIN df_final.rows : Len(df_final.rows[r]) = Len(df_final.cols)

C14_Witness ==
    /\ pc = "done" /\ num_months = 2 /\ Len(vessel_names) = 2
    /\ HasCol(df_final, FuelCol) /\ ~HasCol(df_final, CiiCol)
    /\ HasCol(df_final, me_dates_info[1].col_name)
    /\ df_final.cols # CanonicalColumns(today, num_months)

\* C15: in the returned table the sequence numbers are 1, 2, ..., n in row
\* order, and the k-th row is the row of the k-th requested vessel.
C15_RowOrder ==
    (pc = "done" /\ vessel_names # <<>>) =>
        /\ \A r \in DOMAIN df_final.rows : Cell(df_final, r, SNoCol) = Num(r)
        /\ Len(df_final.rows) = Len(vessel_names)
        /\ \A r \in DOMAIN df_final.rows :
              r <= Len(vessel_names) =>
                  Cell(df_final, r, VesselNameCol) = Num(vessel_names[r])

\* C16: the queries of a batch are the N hull-roughness queries, then the N
\* ME-SFOC queries, then one fuel-saving query, then one CII query, 2N+2 in
\* all (for N = 0 the two fixed queries alone); and a batch that ended issued
\* 2N+2 calls.
C16_DescriptorCount ==
    /\ pc = "query" =>
          /\ Len(batch_queries) = 2 * num_months + 2
          /\ Len(hull_dates_info) = num_months
          /\ Len(me_dates_info) = num_months
          /\ \A k \in 1..num_months :
                /\ batch_queries[k].kind = "hull"
                /\ batch_queries[k].query_name = hull_dates_info[k].power_loss_col_name
                /\ batch_queries[num_months + k].kind = "me"
                /\ batch_queries[num_months + k].query_name = me_dates_info[k].col_name
          /\ batch_queries[2 * num_months + 1].kind = "fuel"
          /\ batch_queries[2 * num_months + 2].kind = "cii"
    /\ (pc = "batch" \/ LoopOver) => Len(calls) = (2 * num_months + 2) * Len(batches)

C16_Witness ==
    /\ pc = "batch" /\ num_months = 0 /\ Len(batches) = 1 /\ Len(calls) = 2
    /\ calls[1].query_name = FixedCol("Potential Fuel Saving")
    /\ calls[2].query_name = FixedCol("YTD CII")

\* the last day of the calendar month k months before the month of t
LastDayMonthsBack(t, k) ==
    LET total == t.y * 12 + (t.m - 1) - k
        y == total \div 12
        m == (total % 12) + 1
    IN [y |-> y, m |-> m, d |-> DaysInMonth(y, m)]

\* C17: for every offset k in 1..N the date of the k-th hull-roughness
\* descriptor is the last day of the calendar month k months before today's
\* month.
C17_HullDates ==
    \A k \in DOMAIN hull_dates_info :
        hull_dates_info[k].date_str = LastDayMonthsBack(today, k)

\* the accumulator a query of the given kind and key refers to
AccOf(kind, key, hullacc, meacc, fuelacc, ciiacc) ==
    CASE kind = "hull" -> hullacc[key]
      [] kind = "me" -> meacc[key]
      [] kind = "fuel" -> fuelacc
      [] kind = "cii" -> ciiacc

\* C18: a call answered by the envelope {"statusCode": 200, "body": rows}
\* appends the rows of the body to the accumulator of its descriptor, as a
\* bare list of the same rows would, and the run goes on; a call answered by
\* an envelope whose statusCode is not 200 leaves every accumulator as it was.
C18_EnvelopeUnwrapped ==
    [][(pc = "query" /\ Len(calls') = Len(calls) + 1) =>
         LET c == calls'[Len(calls')]
             bq == batch_queries[q]
             before == AccOf(bq.kind, bq.key, all_hull_data_by_month, all_me_data_by_month,
                             all_fuel_saving_data, all_cii_data)
             after == AccOf(bq.kind, bq.key, all_hull_data_by_month', all_me_data_by_month',
                            all_fuel_saving_data', all_cii_data')
         IN /\ c.statusCode = 200 =>
                  /\ pc' # "raised"
                  /\ after = before \o <<Row(batch_vessels[1], TypicalCell(bq.kind))>>
            /\ c.statusCode \notin {0, 200} =>
                  /\ pc' # "raised"
                  /\ after = before]_vars

\* C19: when rows of a descriptor carry vessel_name but not the value key (all
\* of them or some of them), the run does not raise, and in the returned table
\* every vessel's cell of every descriptor is what that descriptor's own rows
\* give: missing (tier N/A) for a vessel whose row lacks the key or is absent,
\* the value (its tier, its capped amount, its rating) for a vessel whose row
\* carries it.
C19_SchemaMismatch ==
    /\ pc # "raised"
    /\ pc = "done" =>
          /\ Len(df_final.rows) = Len(vessel_names)
          /\ \A v \in Range(vessel_names) : \A r \in RowsOf(df_final, v) :
                /\ \A k \in DOMAIN hull_dates_info :
                      Cell(df_final, r, hull_dates_info[k].col_name) =
                          Str(get_hull_condition(RawOf(HullItems(k), v)))
                /\ \A k \in DOMAIN me_dates_info :
                      MeItems(k) # <<>> =>
                          /\ HasCol(df_final, me_dates_info[k].col_name)
                          /\ Cell(df_final, r, me_dates_info[k].col_name) =
                                Str(get_me_efficiency_and_comment(RawOf(MeItems(k), v)).tier)
                /\ all_fuel_saving_data # <<>> =>
                      /\ HasCol(df_final, FuelCol)
                      /\ Cell(df_final, r, FuelCol) =
                            Round2(cap_fuel(RawOf(all_fuel_saving_data, v)))
                /\ all_cii_data # <<>> =>
                      /\ HasCol(df_final, CiiCol)
                      /\ Cell(df_final, r, CiiCol) = RawOf(all_cii_data, v)

C19_Witness ==
    /\ pc = "done"
    /\ HullItems(1) = <<Row(1, TypicalCell("hull")), RowNoVal(2)>>
    /\ MeItems(1) = <<RowNoVal(1), RowNoVal(2)>>
    /\ all_fuel_saving_data = <<RowNoVal(1), Row(2, TypicalCell("fuel"))>>
    /\ Cell(df_final, 1, hull_dates_info[1].col_name) = Str("Good")
    /\ Cell(df_final, 2, hull_dates_info[1].col_name) = Str("N/A")
    /\ Cell(df_final, 1, me_dates_info[1].col_name) = Str("N/A")
    /\ Cell(df_final, 1, FuelCol) = NA
    /\ Cell(df_final, 2, FuelCol) = Num(3200)

\* the table query_report_data returns for a request, a date and the rows
\* the executor calls left in the accumulators
Report(names, n, t, hullacc, meacc, fuelacc, ciiacc) ==
    LET hi == PlanHull(t, n)
        mi == PlanMe(t, n)
        m == MergeAll(names, hi, mi, hullacc, meacc, fuelacc, ciiacc)
    IN Assembled(Classified(m.df, hi, mi), hi, mi)

\* what a query of a batch asks, its vessel list left out
Descriptor(bq) ==
    [query_name |-> bq.query_name, kind |-> bq.kind, key |-> bq.key,
     date |-> bq.sql.date, interval_start |-> bq.sql.interval_start,
     interval_end |-> bq.sql.interval_end]

C21_DuplicateRaises ==
    ~Distinct(vessel_names) => pc # "done"

\* the calls made so far follow the schedule: batch after batch, and within a
\* batch the queries in their order, each once
OnSchedule ==
    \A k \in DOMAIN calls :
        /\ calls[k].batch_num = ((k - 1) \div (2 * num_months + 2)) + 1
        /\ calls[k].index = ((k - 1) % (2 * num_months + 2)) + 1

\* the number of calls of a complete run
AllCalls == ((Len(vessel_names) + BatchSize - 1) \div BatchSize) * (2 * num_months + 2)

\* C22: whatever the calls return, the executor is invoked once per (batch,
\* descriptor) pair, batch after batch and in descriptor order within a batch;
\* merging starts only after the last call; and the run ends only after
\* ceil(|V|/10) x (2N+2) calls, no pair being skipped.
C22_CallDiscipline ==
    /\ OnSchedule
    /\ Len(calls) <= AllCalls
    /\ (LoopOver /\ vessel_names # <<>>) => Len(calls) = AllCalls
    /\ pc = "raised" => Len(calls) = AllCalls

\* a is a prefix of b
IsPrefix(a, b) == Len(a) <= Len(b) /\ a = SubSeq(b, 1, Len(a))

\* C23: a call of descriptor d that returned rows appends them to the
\* accumulator of d and changes the accumulator of no other descriptor; a call
\* that failed or returned nothing changes no accumulator; so accumulators
\* only grow, each by the rows of its own descriptor's calls, in batch order.
C23_AccumulatorFrame ==
    [][(pc = "query" /\ Len(calls') = Len(calls) + 1 /\ pc' # "raised") =>
         \A j \in DOMAIN batch_queries :
           LET c == calls'[Len(calls')]
               bq == batch_queries[j]
               before == AccOf(bq.kind, bq.key, all_hull_data_by_month, all_me_data_by_month,
                               all_fuel_saving_data, all_cii_data)
               after == AccOf(bq.kind, bq.key, all_hull_data_by_month', all_me_data_by_month',
                              all_fuel_saving_data', all_cii_data')
           IN /\ IsPrefix(before, after)
              /\ (j # q \/ ~c.truthy) => after = before
              /\ (j = q /\ c.truthy) => Len(after) > Len(before)]_vars

----------------------------------------------------------------------------
(* The comments specification: two vessels, two months with distinct labels, *)
(* each ME query having returned for each vessel an anomalous value, a good  *)
(* value, a null value or no row.                                            *)

MeRowChoices(v) == {<<>>, <<Row(v, NA)>>, <<Row(v, Num(Milli(150)))>>, <<Row(v, Num(Milli(170)))>>}

InitComments ==
    \E a1 \in MeRowChoices(1), a2 \in MeRowChoices(2),
       b1 \in MeRowChoices(1), b2 \in MeRowChoices(2) :
      LET hi == PlanHull(March10, 2)
          mi == PlanMe(March10, 2)
      IN AfterLoop(Fleet(2), 2, March10,
                   [x \in {hi[k].power_loss_col_name : k \in 1..2} |-> <<>>],
                   [x \in {mi[k].col_name : k \in 1..2} |->
                      IF x = mi[1].col_name THEN a1 \o a2 ELSE b1 \o b2],
                   <<>>, <<>>)

SpecComments == InitComments /\ [][NextClassify]_vars

\* the ME query of column c returned an anomalous value for vessel v
AnomalousMonth(c, v) ==
    \E k \in ItemsFor(all_me_data_by_month[c], v) :
      LET it == all_me_data_by_month[c][k]
      IN it.has_val /\ ~IsNA(it.val) /\ it.val.n < Milli(160)

\* the fragments of the anomalous months of v among minfos, in their order
RECURSIVE MonthFragments(_, _)
MonthFragments(minfos, v) ==
    IF minfos = <<>> THEN <<>>
    ELSE (IF AnomalousMonth(Head(minfos).col_name, v)
          THEN <<CommentFragment(Head(minfos).col_name, AnomalyText)>>
          ELSE <<>>) \o MonthFragments(Tail(minfos), v)

\* with pairwise distinct ME labels: the Comments cell of each vessel is the
\* joined sequence of the fragments of its anomalous months, in monthly order,
\* and the empty string when there is none
CommentsWhenLabelsDistinct ==
    (pc = "done" /\ Distinct([k \in DOMAIN me_dates_info |-> me_dates_info[k].col_name])) =>
      \A v \in Range(vessel_names) : \A r \in RowsOf(df_final, v) :
        LET fr == MonthFragments(me_dates_info, v)
        IN /\ HasCol(df_final, CommentsCol)
           /\ fr = <<>> => Cell(df_final, r, CommentsCol) = Str("")
           /\ fr # <<>> => /\ Cell(df_final, r, CommentsCol).t = "joined"
                           /\ Cell(df_final, r, CommentsCol).l = fr

C26_DistinctMonths ==
    /\ Distinct([k \in DOMAIN hull_dates_info |-> hull_dates_info[k].date_str])
    /\ Distinct([k \in DOMAIN hull_dates_info |-> hull_dates_info[k].power_loss_col_name])
    /\ Distinct([k \in DOMAIN hull_dates_info |-> hull_dates_info[k].col_name])
    /\ Distinct([k \in DOMAIN me_dates_info |-> me_dates_info[k].col_name])

\* DATE_TRUNC('month', CURRENT_DATE - INTERVAL 'n month'): the first day of the
\* month n months before the month of t
date_trunc_month(t, n) ==
    LET total == t.y * 12 + (t.m - 1) - n
    IN [y |-> total \div 12, m |-> (total % 12) + 1, d |-> 1]

\* the bounds of the reportdate condition of an ME query, lines 197-198
MeWindow(t, info) ==
    [from |-> date_trunc_month(t, info.interval_start_str),
     to |-> date_trunc_month(t, info.interval_end_str)]

\* C27: the window of the k-th ME descriptor is the calendar month k months
\* before today's month, from its first day to the first day of the following
\* month, and the label of the descriptor names that same month.
C27_MeWindow ==
    \A k \in DOMAIN me_dates_info :
      LET w == MeWindow(today, me_dates_info[k])
          month == LastDayMonthsBack(today, k)
          following == LastDayMonthsBack(today, k - 1)
      IN /\ w.from = [month EXCEPT !.d = 1]
         /\ w.to = [following EXCEPT !.d = 1]
         /\ me_dates_info[k].col_name = Col("ME Efficiency", w.from.m, w.from.y % 100)

\* the window alone: one calendar month, the k-th month before today's
MeWindowIsOneMonth ==
    \A k \in DOMAIN me_dates_info :
      LET w == MeWindow(today, me_dates_info[k])
      IN /\ w.from = [LastDayMonthsBack(today, k) EXCEPT !.d = 1]
         /\ w.to = [LastDayMonthsBack(today, k - 1) EXCEPT !.d = 1]

----------------------------------------------------------------------------
(* The Word renderer, as far as its outcome depends on the table: lines      *)
(* 509-1105.  Both branches (placeholder found or not) look the same columns *)
(* up; any exception is caught at line 1102 and None is returned.            *)

TierCols(df) ==
    {j \in DOMAIN df.cols : df.cols[j].kind \in {"Hull Condition", "ME Efficiency"}}

\* df.columns.get_loc(c) is a position: c is a label of df, borne by one column
GetLocIsPosition(df, c) == Cardinality({j \in DOMAIN df.cols : df.cols[j] = c}) = 1

create_advanced_word_report(df, template_exists) ==
    IF ~template_exists THEN "None"                               \* 512-514
    ELSE IF \E c \in {SNoCol, VesselNameCol, FuelCol, CiiCol, CommentsCol} :
               ~GetLocIsPosition(df, c)
         THEN "None"                                              \* 593-655, KeyError
    ELSE IF \E j \in TierCols(df) : ~GetLocIsPosition(df, df.cols[j])
         THEN "None"                                              \* 610-685
    ELSE "document"                                               \* 1097-1100

\* C29: every non-empty table query_report_data returns, whatever calls
\* failed, is rendered by create_advanced_word_report when the template file
\* exists: the renderer returns the document, not None.
C29_Renderable ==
    (pc = "done" /\ ~FrameEmpty(df_final)) =>
        create_advanced_word_report(df_final, TRUE) = "document"

\* with its fixed columns present and no label twice the table is rendered
RenderableWhenComplete ==
    (pc = "done" /\ ~FrameEmpty(df_final) /\ HasCol(df_final, FuelCol)
       /\ HasCol(df_final, CiiCol) /\ Distinct(df_final.cols)) =>
        create_advanced_word_report(df_final, TRUE) = "document"

----------------------------------------------------------------------------
(* The page: one script run of main per user interaction, the vessel list    *)
(* being loaded.  Widget values are those Streamlit hands to the run.        *)

\* the vessels fetch_all_vessels returns, sorted
AllVessels == <<1, 2>>
SearchTerms == {"", "1"}
Durations == {1, 2, 3}

\* search_lower in v.lower(), the names being "V1", "V2"
Contains(v, term) ==
    CASE term \in {"v", "V"} -> TRUE
      [] term = "1" -> v = 1
      [] term = "2" -> v = 2
      [] OTHER -> FALSE

filter_vessels_client_side(vessels, search_term) ==
    IF search_term = "" THEN vessels
    ELSE SelectSeq(vessels, LAMBDA v : Contains(v, search_term))

\* list(st.session_state.selected_vessels): the elements in some order
ListOfSet(S) == {l \in [1..Cardinality(S) -> S] : Distinct(l)}

FuelChoices == {<<>>, <<Row(1, Num(3200))>>, <<KeyItem("statusCode"), KeyItem("body")>>}
CiiChoices == {<<Row(1, Str("A"))>>}

\* a run of query_report_data whose hull and ME calls returned nothing
query_report_data(names, n, t, fuelacc, ciiacc) ==
    LET hullacc == [x \in {PlanHull(t, n)[k].power_loss_col_name : k \in 1..n} |-> <<>>]
        meacc == [x \in {PlanMe(t, n)[k].col_name : k \in 1..n} |-> <<>>]
        m == MergeAll(names, PlanHull(t, n), PlanMe(t, n), hullacc, meacc, fuelacc, ciiacc)
    IN IF names = <<>> THEN [kind |-> "returned", df |-> EmptyFrame]
       ELSE IF ~m.ok THEN [kind |-> "raised", df |-> EmptyFrame]
       ELSE [kind |-> "returned",
             df |-> Report(names, n, t, hullacc, meacc, fuelacc, ciiacc)]

\* the outcomes of the call of line 1212: an exception raised in the batch
\* loop, or the outcome of the merge
GenerateOutcomes(names, n) ==
    {[kind |-> "raised", df |-> EmptyFrame]}
    \cup {query_report_data(names, n, March10, f, c) : f \in FuelChoices, c \in CiiChoices}

NotClicked == [kind |-> "none", df |-> EmptyFrame]

\* the except branch leaving report_data as it was
ReportDataAfterKeepsOld(before, out) ==
    CASE out.kind = "returned" -> ReportOf(out.df)
      [] out.kind = "raised" -> before
      [] OTHER -> before

\* session_state.report_data after lines 1208-1226
ReportDataAfter(before, out) ==
    CASE out.kind = "returned" -> ReportOf(out.df)                \* 1212-1214
      [] out.kind = "raised" -> NoReport                          \* 1224-1226
      [] OTHER -> before

\* lines 1232-1300: the Word download of the displayed report
WordData(rd, template_exists) ==
    IF rd.is_none \/ FrameEmpty(rd.df) THEN "not rendered"
    ELSE IF ~template_exists THEN "no template"
    ELSE create_advanced_word_report(rd.df, TRUE)

PipelineIdle ==
    UNCHANGED <<pc, vessel_names, num_months, today, hull_dates_info, me_dates_info,
                all_hull_data_by_month, all_me_data_by_month, all_fuel_saving_data,
                all_cii_data, total_batches, i, batch_vessels, batch_queries, q,
                batches, progress, calls, retrieved, df_final>>

\* lines 1124-1300 of main, run with the widget values cb (checked boxes), txt
\* (search box) and rad (duration), the Generate button clicked or not
MainBody(cb, txt, rad, clicked, label) ==
    LET filtered == Range(filter_vessels_client_side(AllVessels, txt))
        sel == (session_state.selected_vessels \ filtered) \cup (filtered \cap cb)
    IN \E names \in ListOfSet(sel), template_exists \in BOOLEAN :
       \E out \in (IF clicked /\ sel # {} THEN GenerateOutcomes(names, rad) ELSE {NotClicked}) :
         LET rd == ReportDataAfter(session_state.report_data, out)
         IN /\ session_state' = [selected_vessels |-> sel, report_data |-> rd,
                                 search_query |-> txt, report_months |-> rad,
                                 trigger_rerun |-> FALSE]
            /\ ui' = [checkbox |-> cb, radio |-> rad, text_input |-> txt,
                      reruns |-> ui.reruns,
                      last |-> CASE out.kind = "returned" -> "generate_returned"
                                 [] out.kind = "raised" -> "generate_raised"
                                 [] OTHER -> label,
                      returned |-> IF out.kind = "returned" THEN ReportOf(out.df) ELSE NoReport,
                      word_data |-> WordData(rd, template_exists),
                      pending |-> FALSE]
            /\ PipelineIdle

\* lines 1108-1115, the callback of the Reset All button.  The search box is
\* rebuilt from value=""; the keyed checkboxes keep their state or lose it.
reset_page ==
    /\ ~ui.pending
    /\ session_state' = [selected_vessels |-> {}, report_data |-> NoReport,
                         search_query |-> "", report_months |-> 2,
                         trigger_rerun |-> TRUE]
    /\ \E cb \in {ui.checkbox, {}} :
         ui' = [ui EXCEPT !.checkbox = cb, !.text_input = "", !.reruns = 0,
                          !.last = "reset", !.returned = NoReport,
                          !.word_data = "not rendered", !.pending = TRUE]
    /\ PipelineIdle

\* main requesting the rerun without clearing the flag
MainRerunKeepsFlag ==
    /\ ui.pending
    /\ session_state.trigger_rerun
    /\ ui.reruns < 3
    /\ session_state' = session_state
    /\ ui' = [ui EXCEPT !.reruns = @ + 1, !.last = "rerun"]
    /\ PipelineIdle

\* lines 1119-1122: main run with the flag set
MainRerun ==
    /\ ui.pending
    /\ session_state.trigger_rerun
    /\ ui.reruns < 3
    /\ session_state' = [session_state EXCEPT !.trigger_rerun = FALSE]
    /\ ui' = [ui EXCEPT !.reruns = @ + 1, !.last = "rerun"]
    /\ PipelineIdle

\* main run to its end, no widget changed (first load, or the rerun)
MainRun ==
    /\ ui.pending
    /\ ~session_state.trigger_rerun
    /\ MainBody(ui.checkbox, ui.text_input, ui.radio, FALSE, "run")

ToggleCheckbox ==
    /\ ~ui.pending
    /\ \E v \in Range(filter_vessels_client_side(AllVessels, session_state.search_query)) :
         MainBody(IF v \in ui.checkbox THEN ui.checkbox \ {v} ELSE ui.checkbox \cup {v},
                  ui.text_input, ui.radio, FALSE, "checkbox")

TypeSearch ==
    /\ ~ui.pending
    /\ \E txt \in SearchTerms \ {ui.text_input} :
         MainBody(ui.checkbox, txt, ui.radio, FALSE, "search")

ChooseDuration ==
    /\ ~ui.pending
    /\ \E rad \in Durations \ {ui.radio} :
         MainBody(ui.checkbox, ui.text_input, rad, FALSE, "radio")

\* the Generate button is on the page when the last run had a selection
ClickGenerate ==
    /\ ~ui.pending
    /\ session_state.selected_vessels # {}
    /\ MainBody(ui.checkbox, ui.text_input, ui.radio, TRUE, "generate")

InitSession == InitWith({Fleet(0)}, {0}, {March10})

NextSession ==
    \/ reset_page
    \/ MainRerun
    \/ MainRun
    \/ ToggleCheckbox
    \/ TypeSearch
    \/ ChooseDuration
    \/ ClickGenerate

SpecSession == InitSession /\ [][NextSession]_vars

\* C28: a generation attempt in which query_report_data raised leaves
\* report_data None; one in which it returned leaves report_data the returned
\* table; so no attempt leaves the table of an earlier run in report_data.
C28_ReportDataAfterGenerate ==
    /\ ui.last = "generate_raised" => session_state.report_data = NoReport
    /\ ui.last = "generate_returned" => session_state.report_data = ui.returned

\* an attempt over two selected vessels raised: nothing is displayed
C28_Witness ==
    /\ ui.last = "generate_raised"
    /\ session_state.report_data = NoReport
    /\ session_state.selected_vessels = {1, 2}
    /\ ui.word_data = "not rendered"

\* C30: right after reset_page the selection is empty, report_data is None,
\* the search text is empty, report_months is 2 and trigger_rerun is set; the
\* next run of main clears the flag when it requests the rerun, the flag is
\* set at no other time, so a reset is followed by exactly one rerun.
C30_Reset ==
    /\ ui.last = "reset" =>
          /\ session_state = [selected_vessels |-> {}, report_data |-> NoReport,
                              search_query |-> "", report_months |-> 2,
                              trigger_rerun |-> TRUE]
          /\ ui.reruns = 0
    /\ ui.last = "rerun" => ~session_state.trigger_rerun /\ ui.reruns = 1
    /\ session_state.trigger_rerun => ui.last = "reset"
    /\ ui.reruns <= 1
    /\ (~ui.pending /\ ui.last # "load") => ~session_state.trigger_rerun

\* after a reset and its one rerun main has run to its end, the duration
\* radio showing 3 months
C30_Witness ==
    /\ ui.last = "run"
    /\ ui.reruns = 1
    /\ ~ui.pending
    /\ session_state.report_data = NoReport
    /\ ui.radio = 3

====
